---- MODULE Spec2Model ----
(***************************************************************************)
(* A model of the OedgePlots class of "OEDGE Scripts/oedge_plots.py": the  *)
(* construction of the polygon mesh from the netCDF grid arrays, and the   *)
(* extraction routines that flatten per-ring/per-knot fields into arrays   *)
(* aligned with that mesh.                                                 *)
(*                                                                         *)
(* Python indices are kept 0-based: an array of n entries is a function on *)
(* 0..n-1.  A Python list built by append is a sequence.                   *)
(***************************************************************************)
EXTENDS Integers, Sequences, FiniteSets, TLC

(***************************************************************************)
(* Bounds of the model.                                                    *)
(***************************************************************************)
\* number of rings of the grid (NRS)
MaxRings == 3
\* second dimension of the ring/knot arrays; a ring has MaxKnots or
\* MaxKnots - 1 knots
MaxKnots == 3
\* at most this many cells of the grid have zero area
MaxZeroArea == 1
\* the charge-resolved variable has charge planes 0..MaxCharge (charge
\* states -1..MaxCharge-1)
MaxCharge == 2

(***************************************************************************)
(* Floating point numbers.  A float is a pair <<n, d>>: the rational n/d   *)
(* in lowest terms when d > 0, and nan, +inf, -inf when d = 0.             *)
(***************************************************************************)
NaN  == <<0, 0>>
PInf == <<1, 0>>
NInf == <<-1, 0>>

Abs(n) == IF n < 0 THEN -n ELSE n
Sign(n) == IF n < 0 THEN -1 ELSE IF n > 0 THEN 1 ELSE 0

RECURSIVE GCD(_, _)
GCD(a, b) == IF b = 0 THEN a ELSE GCD(b, a % b)

Norm(n, d) ==
    IF d = 0 THEN <<Sign(n), 0>>
    ELSE LET g == GCD(Abs(n), Abs(d))
             s == Sign(d)
         IN  <<(s * n) \div g, (s * d) \div g>>

ToF(n) == <<n, 1>>
IsNaN(a) == a = NaN
IsFinite(a) == a[2] # 0

\* common factors are taken out before the products are formed
FMul(a, b) ==
    IF IsFinite(a) /\ IsFinite(b)
    THEN LET g == GCD(Abs(a[1]), b[2])
             h == GCD(Abs(b[1]), a[2])
         IN  Norm((a[1] \div g) * (b[1] \div h), (a[2] \div h) * (b[2] \div g))
    ELSE Norm(a[1] * b[1], a[2] * b[2])

FAdd(a, b) ==
    IF IsFinite(a) /\ IsFinite(b)
    THEN LET g == GCD(a[2], b[2])
         IN  Norm(a[1] * (b[2] \div g) + b[1] * (a[2] \div g), (a[2] \div g) * b[2])
    ELSE IF IsNaN(a) \/ IsNaN(b) THEN NaN
    ELSE IF IsFinite(a) THEN b
    ELSE IF IsFinite(b) THEN a
    ELSE IF a = b THEN a ELSE NaN

FNeg(a) == <<-a[1], a[2]>>
FSub(a, b) == FAdd(a, FNeg(b))

\* numpy division: x/0 is +-inf, 0/0 and inf/inf are nan, x/inf is 0
FDiv(a, b) ==
    IF IsNaN(a) \/ IsNaN(b) THEN NaN
    ELSE IF ~IsFinite(b) THEN (IF IsFinite(a) THEN ToF(0) ELSE NaN)
    ELSE IF ~IsFinite(a) THEN <<a[1] * (IF b[1] < 0 THEN -1 ELSE 1), 0>>
    ELSE FMul(a, IF b[1] = 0 THEN <<Sign(b[2]), 0>> ELSE Norm(b[2], b[1]))

FAbs(a) == <<Abs(a[1]), a[2]>>

\* a < b; any comparison with nan is false
FLt(a, b) ==
    IF IsNaN(a) \/ IsNaN(b) THEN FALSE
    ELSE IF IsFinite(a) /\ IsFinite(b)
    THEN LET g == GCD(a[2], b[2])
         IN  a[1] * (b[2] \div g) < b[1] * (a[2] \div g)
    ELSE IF IsFinite(a) THEN b = PInf
    ELSE IF IsFinite(b) THEN a = NInf
    ELSE a = NInf /\ b = PInf

\* a == b of IEEE floats: nan equals nothing
FEq(a, b) == ~IsNaN(a) /\ a = b

\* the largest r with r * r <= x
ISqrt(x) == CHOOSE r \in 0 .. x : r * r <= x /\ (r + 1) * (r + 1) > x

\* np.sqrt: nan for a negative number; exact on the squares of rationals and
\* rounded down to a multiple of 1/d otherwise
FSqrtOf(a, rn, rd) ==
    IF rn * rn = a[1] /\ rd * rd = a[2] THEN <<rn, rd>>
    ELSE Norm(ISqrt(a[1] * a[2]), a[2])

FSqrt(a) ==
    IF IsNaN(a) \/ a[1] < 0 THEN NaN
    ELSE IF ~IsFinite(a) THEN PInf
    ELSE FSqrtOf(a, ISqrt(a[1]), ISqrt(a[2]))

(***************************************************************************)
(* The netCDF file.  The grid is MaxRings rings of MaxKnots or MaxKnots-1  *)
(* knots; cell (ir, ik) is the square [2ik, 2ik+2] x [2ir, 2ir+2] and its  *)
(* polygon number (KORPG, counted from 1) runs against the ring-major      *)
(* order.  The arrays are rectangular: entries with ik >= NKS[ir] are      *)
(* padding.  KSS holds the s coordinate of the cell centres, KSB that of    *)
(* the cell boundaries (one more column), KSMAXS the length of each ring.  *)
(***************************************************************************)
Rings == 0 .. MaxRings - 1
Knots == 0 .. MaxKnots - 1
NPoly == MaxRings * MaxKnots
Lin(ir, ik) == ir * MaxKnots + ik

\* the no-data value netCDF puts in unwritten entries
FillVal == 1000000

NksOf(v) == [ir \in Rings |-> IF (ir + v) % 2 = 0 THEN MaxKnots ELSE MaxKnots - 1]
CellsOf(v) == {c \in Rings \X Knots : c[2] < NksOf(v)[c[1]]}

\* cells whose centre has been put outside their polygon
OffCentre(ir, ik) == (ir + ik) % 3 = 2

Dataset(v, zero, sep) ==
    LET n == NksOf(v)
        real(ir, ik) == ik < n[ir]
        \* a field is 0 in the padding
        field(ir, ik, x) == IF ik < n[ir] THEN ToF(x) ELSE ToF(0)
    IN  [ NRS    |-> MaxRings,
          NKS    |-> n,
          IRSEP  |-> sep,
          KAREAS |-> [ir \in Rings |-> [ik \in Knots |->
                        IF real(ir, ik) /\ <<ir, ik>> \notin zero THEN 1 ELSE 0]],
          KORPG  |-> [ir \in Rings |-> [ik \in Knots |->
                        IF real(ir, ik) THEN NPoly - Lin(ir, ik) ELSE 0]],
          RVERTP |-> [q \in 0 .. NPoly |-> [j \in 0 .. 4 |->
                        IF q = NPoly \/ j = 4 THEN 0
                        ELSE LET k == (NPoly - 1 - q) % MaxKnots
                             IN  IF j \in {1, 2} THEN 2 * k + 2 ELSE 2 * k]],
          ZVERTP |-> [q \in 0 .. NPoly |-> [j \in 0 .. 4 |->
                        IF q = NPoly \/ j = 4 THEN 0
                        ELSE LET r == (NPoly - 1 - q) \div MaxKnots
                             IN  IF j \in {2, 3} THEN 2 * r + 2 ELSE 2 * r]],
          RS     |-> [ir \in Rings |-> [ik \in Knots |->
                        IF ~real(ir, ik) THEN 0
                        ELSE IF OffCentre(ir, ik) THEN 2 * ik + 3 ELSE 2 * ik + 1]],
          ZS     |-> [ir \in Rings |-> [ik \in Knots |->
                        IF real(ir, ik) THEN 2 * ir + 1 ELSE 0]],
          QTIM   |-> ToF(3),
          CRMB   |-> ToF(2),
          CRMI   |-> ToF(2),
          ABSFAC |-> ToF(2),
          KSS    |-> [ir \in Rings |-> [ik \in Knots |-> field(ir, ik, 2 * ik + 1)]],
          KSB    |-> [ir \in Rings |-> [j \in 0 .. MaxKnots |->
                        IF j <= n[ir] THEN ToF(2 * j) ELSE ToF(0)]],
          KSMAXS |-> [ir \in Rings |-> ToF(2 * n[ir])],
          PSIFL  |-> [ir \in Rings |-> [ik \in Knots |-> field(ir, ik, ir + 1)]],
          KTEBS  |-> [ir \in Rings |-> [ik \in Knots |->
                        field(ir, ik, 4 * (ir + ik + 2) * (ir + ik + 2)
                                      - (IF (ir + ik) % 2 = 0 THEN 2 ELSE 8))]],
          KTIBS  |-> [ir \in Rings |-> [ik \in Knots |->
                        field(ir, ik, IF (ir + ik) % 2 = 0 THEN 2 ELSE 8)]],
          KNBS   |-> [ir \in Rings |-> [ik \in Knots |-> field(ir, ik, 10 + Lin(ir, ik))]],
          KVHS   |-> [ir \in Rings |-> [ik \in Knots |->
                        field(ir, ik, 4 * (ir - 1) + 3 * ik - 1)]],
          KES    |-> [ir \in Rings |-> [ik \in Knots |->
                        IF ir = 1 /\ ik = 0 THEN ToF(FillVal)
                        ELSE field(ir, ik, Lin(ir, ik) - 2)]],
          KFEGS  |-> [ir \in Rings |-> [ik \in Knots |-> field(ir, ik, ik - ir)]],
          KFIGS  |-> [ir \in Rings |-> [ik \in Knots |-> field(ir, ik, ir - 2 * ik)]],
          E_POL  |-> [ir \in Rings |-> [ik \in Knots |-> field(ir, ik, 1 + ik - ir)]],
          DDLIMS |-> [iz \in 0 .. MaxCharge |-> [ir \in Rings |-> [ik \in Knots |->
                        field(ir, ik, 10 * (iz + 1) + Lin(ir, ik))]]] ]

\* the zero-area cells are a run of at most MaxZeroArea cells, in ring-major order
ZeroRuns(v) ==
    { {c \in CellsOf(v) : Lin(c[1], c[2]) \in start .. start + len - 1} :
        start \in 0 .. NPoly - 1, len \in 0 .. MaxZeroArea }

Datasets ==
    UNION { { Dataset(v, zero, sep) : zero \in ZeroRuns(v), sep \in 2 .. MaxRings } :
            v \in 0 .. 1 }

(***************************************************************************)
(* The .dat file, as far as the class parses it: the value after           *)
(* 'POL DRIFT OPT' and the table of drift regions by ring.                 *)
(***************************************************************************)
NoDat == [loaded |-> FALSE, has_opt |-> FALSE, pol_opt |-> 0,
          has_table |-> FALSE, table |-> {}]

DriftRow(ir, v, s0, s1) ==
    [IR |-> ToF(ir), Vdrift |-> ToF(v), S_START |-> ToF(s0), S_END |-> ToF(s1)]

DriftTables ==
    { {DriftRow(1, 5, 1, 4)},
      {DriftRow(0, -7, 0, 3), DriftRow(MaxRings - 1, 4, 0, 2 * MaxKnots)} }

DatFiles ==
    { [loaded |-> TRUE, has_opt |-> FALSE, pol_opt |-> 0, has_table |-> FALSE, table |-> {}] }
    \cup { [loaded |-> TRUE, has_opt |-> TRUE, pol_opt |-> o, has_table |-> FALSE, table |-> {}] :
             o \in 0 .. 2 }
    \cup { [loaded |-> TRUE, has_opt |-> TRUE, pol_opt |-> o, has_table |-> TRUE, table |-> t] :
             o \in 1 .. 2, t \in DriftTables }

(***************************************************************************)
(* State of an OedgePlots object and of the call last made on it.          *)
(***************************************************************************)
VARIABLES
    nc,         \* self.nc: the netCDF dataset
    dat_file,   \* self.dat_file
    mesh,       \* self.mesh: list of polygons, each a list of (R, Z) pairs
    num_cells,  \* self.num_cells
    pc,         \* the calling script: "new" before __init__ has run, "ready"
                \* to call a method, "returned" when a call has just ended,
                \* "repeated" when that call has been made a second time
    call,       \* the method last called and its arguments
    ret,        \* what that call returned, or the exception it raised
    out,        \* what that call printed
    fig         \* what that call drew

vars == <<nc, dat_file, mesh, num_cells, pc, call, ret, out, fig>>

\* the netCDF variables __init__ copies into attributes
rs     == nc.RS
zs     == nc.ZS
nrs    == nc.NRS
nks    == nc.NKS
area   == nc.KAREAS
korpg  == nc.KORPG
rvertp == nc.RVERTP
zvertp == nc.ZVERTP
irsep  == nc.IRSEP
qtim   == nc.QTIM
kss    == nc.KSS
ksmaxs == nc.KSMAXS
crmb   == nc.CRMB
crmi   == nc.CRMI

NoCall == [op |-> "none"]
NoRet  == [kind |-> "none"]
NoFig  == [kind |-> "none"]
Returns(k, v) == [kind |-> k, val |-> v]
Raises(e) == [kind |-> "raise", val |-> e]

\* numpy's a[i] for an array of n rows: a negative index counts from the end
PyIndex(i, n) == IF i < 0 THEN i + n ELSE i

Init ==
    /\ nc \in Datasets
    /\ dat_file = NoDat
    /\ mesh = <<>>
    /\ num_cells = 0
    /\ pc = "new"
    /\ call = NoCall
    /\ ret = NoRet
    /\ out = <<>>
    /\ fig = NoFig

(***************************************************************************)
(* __init__: the mesh of cell polygons.                                    *)
(***************************************************************************)
\* whether the edge v0 -> v1 is crossed by the ray from (tx, ty) towards +R
EdgeCrossed(v0, v1, tx, ty) ==
    LET yflag0 == v0[2] >= ty
        yflag1 == v1[2] >= ty
    IN  /\ yflag0 # yflag1
        /\ (((v1[2] - ty) * (v0[1] - v1[1]) >= (v1[1] - tx) * (v0[2] - v1[2])) = yflag1)

\* matplotlib Path(vertices).contains_point([tx, ty]): the path closed,
\* crossing-number test
contains_point(vertices, tx, ty) ==
    LET n == Len(vertices)
    IN  Cardinality({e \in 1 .. n :
            EdgeCrossed(vertices[e], vertices[(e % n) + 1], tx, ty)}) % 2 = 1

\* list(zip(rvertp[index][0:4], zvertp[index][0:4]))
CellVertices(index) ==
    LET q == PyIndex(index, NPoly + 1)
    IN  [j \in 1 .. 4 |-> <<rvertp[q][j - 1], zvertp[q][j - 1]>>]

CentreWarning(ir, ik) ==
    [msg |-> "Error: Cell center not within vertices.", ir |-> ir, ik |-> ik]
Message(m) == [msg |-> m, ir |-> -1, ik |-> -1]

\* init_cell with the polygon looked up at KORPG instead of KORPG - 1
init_cell_korpg_not_decremented(ir, ik, acc) ==
    LET vertices == CellVertices(korpg[ir][ik])
    IN  IF area[ir][ik] # 0
        THEN [mesh |-> Append(acc.mesh, vertices),
              num_cells |-> acc.num_cells + 1,
              out |-> IF ~contains_point(vertices, rs[ir][ik], zs[ir][ik])
                      THEN Append(acc.out, CentreWarning(ir, ik))
                      ELSE acc.out]
        ELSE acc

\* init_cell with the centre check made before the append, dropping the cell
init_cell_drops_reported_cell(ir, ik, acc) ==
    LET vertices == CellVertices(korpg[ir][ik] - 1)
    IN  IF area[ir][ik] # 0
        THEN IF ~contains_point(vertices, rs[ir][ik], zs[ir][ik])
             THEN [acc EXCEPT !.out = Append(acc.out, CentreWarning(ir, ik))]
             ELSE [acc EXCEPT !.mesh = Append(acc.mesh, vertices),
                              !.num_cells = acc.num_cells + 1]
        ELSE acc

\* the body of the knot loop; acc holds mesh, num_cells and the output
init_cell(ir, ik, acc) ==
    LET index == korpg[ir][ik] - 1
        vertices == CellVertices(index)
    IN  IF area[ir][ik] # 0
        THEN [mesh |-> Append(acc.mesh, vertices),
              num_cells |-> acc.num_cells + 1,
              out |-> IF ~contains_point(vertices, rs[ir][ik], zs[ir][ik])
                      THEN Append(acc.out, CentreWarning(ir, ik))
                      ELSE acc.out]
        ELSE acc

RECURSIVE init_scan(_, _, _)
init_scan(ir, ik, acc) ==
    IF ir >= nrs THEN acc
    ELSE IF ik >= nks[ir] THEN init_scan(ir + 1, 0, acc)
    ELSE init_scan(ir, ik + 1, init_cell(ir, ik, acc))

OedgePlots_init ==
    /\ pc = "new"
    /\ LET r == init_scan(0, 0, [mesh |-> <<>>, num_cells |-> 0, out |-> <<>>])
       IN  /\ mesh' = r.mesh
           /\ num_cells' = r.num_cells
           /\ out' = r.out
    /\ pc' = "returned"
    /\ call' = [op |-> "__init__"]
    /\ ret' = NoRet
    /\ fig' = NoFig
    /\ UNCHANGED <<nc, dat_file>>

add_dat_file ==
    /\ pc = "ready"
    /\ \E d \in DatFiles :
         /\ dat_file' = d
         /\ call' = [op |-> "add_dat_file"]
    /\ ret' = NoRet
    /\ out' = <<>>
    /\ pc' = "returned"
    /\ fig' = NoFig
    /\ UNCHANGED <<nc, mesh, num_cells>>

(***************************************************************************)
(* read_data_2d                                                            *)
(***************************************************************************)
None_ == [kind |-> "None", v |-> 0]
All_ == [kind |-> "all", v |-> 0]
Charge(c) == [kind |-> "int", v |-> c]
Ring_ == [kind |-> "Ring", v |-> NaN]
Num(x) == [kind |-> "num", v |-> x]

RECURSIVE FSum(_, _)
\* f[0] + ... + f[n-1]
FSum(f, n) == IF n = 0 THEN ToF(0) ELSE FAdd(FSum(f, n - 1), f[n - 1])

\* raw_data.sum(axis=0) of a 3D array
sum_axis0(raw) ==
    LET nz == Cardinality(DOMAIN raw)
    IN  [ir \in DOMAIN raw[0] |-> [ik \in DOMAIN raw[0][ir] |->
            FSum([iz \in DOMAIN raw |-> raw[iz][ir][ik]], nz)]]

\* the normalised s coordinate of each cell
Snorm ==
    [ir \in Rings |-> [ik \in 0 .. MaxKnots |->
        LET x == FDiv(nc.KSB[ir][ik], ksmaxs[ir])
        IN  FAbs(FSub(FAdd(x, FDiv(x, ToF(1))), ToF(1)))]]

raw_data_of(dataname, charge) ==
    LET raw_data == IF dataname = "Snorm" THEN Snorm ELSE nc[dataname]
    IN  IF charge.kind = "all" THEN sum_axis0(raw_data) ELSE raw_data

\* charge_index without the offset of one
charge_index_no_offset(c) == c

\* the first index of a charge-resolved array for charge state c
charge_index(c) == c + 1

\* is_core taking the separatrix ring for a core ring
is_core_with_separatrix(ir) == ir < irsep

\* the rings inside the separatrix
is_core(ir) == ir < irsep - 1

\* what the knot loop stores for cell (ir, ik)
rd_value(raw_data, ir, ik, charge, scaling, no_core) ==
    IF scaling.kind = "Ring" THEN ToF(ir)
    ELSE LET v == IF charge.kind \in {"None", "all"}
                  THEN FMul(raw_data[ir][ik], scaling.v)
                  ELSE FMul(raw_data[PyIndex(charge_index(charge.v),
                                             Cardinality(DOMAIN raw_data))][ir][ik],
                            scaling.v)
         IN  IF no_core /\ is_core(ir) THEN ToF(0) ELSE v

\* rd_cell counting the zero-area cells as well
rd_cell_counts_zero_area(raw_data, ir, ik, charge, scaling, no_core, acc) ==
    IF area[ir][ik] # 0
    THEN [data |-> [acc.data EXCEPT ![acc.count] =
                        rd_value(raw_data, ir, ik, charge, scaling, no_core)],
          count |-> acc.count + 1]
    ELSE [acc EXCEPT !.count = acc.count + 1]

\* the body of the knot loop; acc holds data and count
rd_cell(raw_data, ir, ik, charge, scaling, no_core, acc) ==
    IF area[ir][ik] # 0
    THEN [data |-> [acc.data EXCEPT ![acc.count] =
                        rd_value(raw_data, ir, ik, charge, scaling, no_core)],
          count |-> acc.count + 1]
    ELSE acc

RECURSIVE rd_scan(_, _, _, _, _, _, _)
rd_scan(raw_data, ir, ik, charge, scaling, no_core, acc) ==
    IF ir >= nrs THEN acc
    ELSE IF ik >= nks[ir] THEN rd_scan(raw_data, ir + 1, 0, charge, scaling, no_core, acc)
    ELSE rd_scan(raw_data, ir, ik + 1, charge, scaling, no_core,
                 rd_cell(raw_data, ir, ik, charge, scaling, no_core, acc))

\* data.max(): nan when an entry is nan
FMaxOf(data) ==
    IF \E k \in DOMAIN data : IsNaN(data[k]) THEN NaN
    ELSE LET vals == {data[k] : k \in DOMAIN data}
         IN  CHOOSE m \in vals : \A x \in vals : ~FLt(m, x)

\* fill_val = data.max(); data[np.where(data == fill_val)] = None
fix_fill_data(data) ==
    LET fill_val == FMaxOf(data)
    IN  [k \in DOMAIN data |-> IF FEq(data[k], fill_val) THEN NaN ELSE data[k]]

read_data_2d(dataname, charge, scaling, fix_fill, no_core) ==
    LET raw_data == raw_data_of(dataname, charge)
        zeros == [k \in 0 .. num_cells - 1 |-> ToF(0)]
        data == rd_scan(raw_data, 0, 0, charge, scaling, no_core,
                        [data |-> zeros, count |-> 0]).data
    IN  IF fix_fill
        THEN IF num_cells = 0 THEN Raises("ValueError")
             ELSE Returns("array", fix_fill_data(data))
        ELSE Returns("array", data)

\* the datanames, charges and scalings the calling script uses
Scalings == {Ring_, Num(ToF(1)), Num(ToF(-2)), Num(FDiv(ToF(1), qtim))}
ReadArgs ==
    [dataname : {"KVHS", "KES", "Snorm"}, charge : {None_},
     scaling : Scalings, fix_fill : BOOLEAN, no_core : BOOLEAN]
    \cup
    [dataname : {"DDLIMS"}, charge : {All_} \cup {Charge(c) : c \in -1 .. MaxCharge - 1},
     scaling : Scalings, fix_fill : BOOLEAN, no_core : BOOLEAN]

call_read_data_2d ==
    /\ pc = "ready"
    /\ \E a \in ReadArgs :
         /\ call' = [op |-> "read_data_2d", args |-> a]
         /\ ret' = read_data_2d(a.dataname, a.charge, a.scaling, a.fix_fill, a.no_core)
    /\ out' = <<>>
    /\ pc' = "returned"
    /\ fig' = NoFig
    /\ UNCHANGED <<nc, dat_file, mesh, num_cells>>

(***************************************************************************)
(* get_sep                                                                 *)
(***************************************************************************)
\* range(n) as the set of its values
range(n) == 0 .. n - 1

get_sep ==
    LET row == irsep - 1
        nsep == nks[row]
        rsep == [i \in range(nsep) |-> rvertp[korpg[row][i]][0]]
        zsep == [i \in range(nsep) |-> zvertp[korpg[row][i]][0]]
    IN  [i \in 1 .. Cardinality(range(nsep - 2)) |->
            << <<rsep[i - 1], zsep[i - 1]>>, <<rsep[i], zsep[i]>> >>]

call_get_sep ==
    /\ pc = "ready"
    /\ call' = [op |-> "get_sep"]
    /\ ret' = Returns("lines", get_sep)
    /\ out' = <<>>
    /\ pc' = "returned"
    /\ fig' = NoFig
    /\ UNCHANGED <<nc, dat_file, mesh, num_cells>>

(***************************************************************************)
(* read_data_2d_kvhs_t13                                                   *)
(***************************************************************************)
\* float(self.dat_file.split('POL DRIFT OPT')[1].split(':')[0]) and the
\* DataFrame of the drift table: what the parse ends with
parse_dat_file ==
    IF ~dat_file.loaded THEN "AttributeError"
    ELSE IF ~dat_file.has_opt THEN "IndexError"
    ELSE "ok"
parse_table == IF dat_file.has_table THEN "ok" ELSE "IndexError"

\* ir in add_df.index, and add_df[column].loc[ir]
in_index(add_df, ir) == \E row \in add_df : row.IR = ToF(ir)
loc(add_df, ir) == CHOOSE row \in add_df : row.IR = ToF(ir)

t13_in_drift_region(add_df, ir, ik) ==
    /\ FLt(loc(add_df, ir).S_START, kss[ir][ik])
    /\ FLt(kss[ir][ik], loc(add_df, ir).S_END)

t13_cell(raw_data, scaling, add_df, ir, ik, no_core, acc) ==
    IF area[ir][ik] # 0
    THEN LET d0 == FMul(raw_data[ir][ik], scaling)
             d1 == IF in_index(add_df, ir) /\ t13_in_drift_region(add_df, ir, ik)
                   THEN FAdd(d0, loc(add_df, ir).Vdrift)
                   ELSE d0
             d2 == IF no_core /\ ir < irsep - 1 THEN ToF(0) ELSE d1
         IN  [data |-> [acc.data EXCEPT ![acc.count] = d2], count |-> acc.count + 1]
    ELSE acc

RECURSIVE t13_scan(_, _, _, _, _, _, _)
t13_scan(raw_data, scaling, add_df, ir, ik, no_core, acc) ==
    IF ir >= nrs THEN acc
    ELSE IF ik >= nks[ir] THEN t13_scan(raw_data, scaling, add_df, ir + 1, 0, no_core, acc)
    ELSE t13_scan(raw_data, scaling, add_df, ir, ik + 1, no_core,
                  t13_cell(raw_data, scaling, add_df, ir, ik, no_core, acc))

NotLoadedError == Message("Error: .dat file not loaded in. Run 'add_dat_file' first.")
T13OffError == Message("Error: Poloidal drift option T13 was not on for this run.")
WasT13OnError == Message("Error: Was T13 on for this run?")

\* the value returned (or the exception raised) and the lines printed
read_data_2d_kvhs_t13(no_core) ==
    LET printed == IF ~dat_file.loaded THEN <<NotLoadedError>> ELSE <<>>
    IN  IF parse_dat_file = "AttributeError"
        THEN [ret |-> Raises("AttributeError"), out |-> printed]
        ELSE IF parse_dat_file = "IndexError"
        THEN [ret |-> Returns("None", 0), out |-> Append(printed, WasT13OnError)]
        ELSE IF dat_file.pol_opt = 0
        THEN [ret |-> Returns("int", -1), out |-> Append(printed, T13OffError)]
        ELSE IF parse_table = "IndexError"
        THEN [ret |-> Returns("None", 0), out |-> Append(printed, WasT13OnError)]
        ELSE LET scaling == FDiv(ToF(1), qtim)
                 zeros == [k \in 0 .. num_cells - 1 |-> ToF(0)]
             IN  [ret |-> Returns("array",
                            t13_scan(nc.KVHS, scaling, dat_file.table, 0, 0, no_core,
                                     [data |-> zeros, count |-> 0]).data),
                  out |-> printed]

call_read_data_2d_kvhs_t13 ==
    /\ pc = "ready"
    /\ \E no_core \in BOOLEAN :
         /\ call' = [op |-> "read_data_2d_kvhs_t13", args |-> [no_core |-> no_core]]
         /\ ret' = read_data_2d_kvhs_t13(no_core).ret
         /\ out' = read_data_2d_kvhs_t13(no_core).out
    /\ pc' = "returned"
    /\ fig' = NoFig
    /\ UNCHANGED <<nc, dat_file, mesh, num_cells>>

(***************************************************************************)
(* find_ring_knot                                                          *)
(***************************************************************************)
FSq(a) == FMul(a, a)

\* the square of dist: np.sqrt keeps the order, so the cells at dist.min()
\* are those at the least square
dist2(r, z, ir, ik) ==
    FAdd(FSq(FSub(r, ToF(rs[ir][ik]))), FSq(FSub(z, ToF(zs[ir][ik]))))

\* the first entry, in row-major order, of a set of array positions
first_of(cells) ==
    CHOOSE c \in cells : \A d \in cells : c[1] < d[1] \/ (c[1] = d[1] /\ c[2] <= d[2])

\* np.where(dist == dist.min()), first entry in row-major order; dist is the
\* set of the pairs <<position, distance>>
closest_cell(dist) ==
    first_of({p[1] : p \in {q \in dist : \A d \in dist : ~FLt(d[2], q[2])}})

find_ring_knot(r, z) ==
    closest_cell({<<c, dist2(r, z, c[1], c[2])>> : c \in Rings \X Knots})

\* the points the calling script asks about: on cell centres, between two
\* and four of them, at the origin and outside the grid
Points == {ToF(0), ToF(1), ToF(2), <<5, 2>>, ToF(7)} \X {ToF(0), ToF(1), ToF(2), ToF(5)}

call_find_ring_knot ==
    /\ pc = "ready"
    /\ \E p \in Points :
         /\ call' = [op |-> "find_ring_knot", args |-> [r |-> p[1], z |-> p[2]]]
         /\ ret' = Returns("tuple", find_ring_knot(p[1], p[2]))
    /\ out' = <<>>
    /\ pc' = "returned"
    /\ fig' = NoFig
    /\ UNCHANGED <<nc, dat_file, mesh, num_cells>>

(***************************************************************************)
(* fake_probe                                                              *)
(***************************************************************************)
\* np.linspace(start, stop, num)[i]
linspace(start, stop, num, i) ==
    IF num = 1 THEN start
    ELSE IF i = num - 1 THEN stop
    ELSE FAdd(start, FMul(ToF(i), FDiv(FSub(stop, start), ToF(num - 1))))

\* stands for 931.49E6 / (3E8)^2, the amu in eV s^2 / m^2, so chosen that the
\* sound speeds of the datasets are rational
AmuFactor == <<1, 8>>

T13OffNote == Message("Poloidal drift option T13 was OFF.")
T13OnNote == Message("Poloidal drift option T13 was ON.")
NotLoadedNote == Message("Error: .dat file has not been loaded.")
NotRunWarning == Message("Warning: Can't add on T13 flag if DIVIMP is not run.")

fp_in_drift_region(add_df, ir, ik) ==
    /\ FLt(loc(add_df, ir).S_START, kss[ir][ik])
    /\ FLt(kss[ir][ik], loc(add_df, ir).S_END)

\* kvhs_adj with the drifts of the table added (kvhs_adj is kvhs itself, so
\* every cell is written once, from its own value)
fp_add_drift(kvhs, add_df) ==
    [ir \in Rings |-> [ik \in Knots |->
        IF /\ ir < nrs /\ ik < nks[ir]
           /\ area[ir][ik] # 0
           /\ in_index(add_df, ir)
           /\ fp_in_drift_region(add_df, ir, ik)
        THEN FAdd(kvhs[ir][ik], loc(add_df, ir).Vdrift)
        ELSE kvhs[ir][ik]]]

\* the preprocessing of 'Mach' and 'Velocity': kvhs_adj and the lines printed
fp_kvhs_adj ==
    LET scaling == FDiv(ToF(1), qtim)
        kvhs == [ir \in Rings |-> [ik \in Knots |-> FMul(nc.KVHS[ir][ik], scaling)]]
    IN  IF parse_dat_file = "AttributeError"
        THEN [kvhs_adj |-> kvhs, out |-> <<NotLoadedNote>>]
        ELSE IF parse_dat_file = "IndexError"
        THEN [kvhs_adj |-> kvhs, out |-> <<NotRunWarning>>]
        ELSE IF dat_file.pol_opt = 0
        THEN [kvhs_adj |-> kvhs, out |-> <<T13OffNote>>]
        ELSE IF dat_file.pol_opt = 1
        THEN IF parse_table = "IndexError"
             THEN [kvhs_adj |-> kvhs, out |-> <<T13OnNote, NotRunWarning>>]
             ELSE [kvhs_adj |-> fp_add_drift(kvhs, dat_file.table), out |-> <<T13OnNote>>]
        ELSE [kvhs_adj |-> kvhs, out |-> <<>>]

\* the sound speed of cell (ring, knot)
fp_cs(ring, knot) ==
    LET te == nc.KTEBS[ring][knot]
        ti == nc.KTIBS[ring][knot]
        mb == FMul(crmb, AmuFactor)
    IN  FSqrt(FDiv(FAdd(te, ti), mb))

\* the row of output_df for location (r, z), which is in cell (ring, knot)
fp_row_at(a, kvhs_adj, r, z, ring, knot) ==
        [RZ |-> <<r, z>>,
         Psin |-> IF a.data \in {"Mach", "Velocity"} THEN nc.PSIFL[ring][knot] ELSE NaN,
         val |-> CASE a.data = "Te" -> nc.KTEBS[ring][knot]
                   [] a.data = "ne" -> nc.KNBS[ring][knot]
                   [] a.data = "Mach" -> FDiv(kvhs_adj[ring][knot], fp_cs(ring, knot))
                   [] a.data = "Velocity" -> kvhs_adj[ring][knot]]

fp_row_in(a, kvhs_adj, r, z, cell) == fp_row_at(a, kvhs_adj, r, z, cell[1], cell[2])

fp_row_of(a, kvhs_adj, r, z) == fp_row_in(a, kvhs_adj, r, z, find_ring_knot(r, z))

\* row i of output_df
fp_row(a, kvhs_adj, i) ==
    fp_row_of(a, kvhs_adj, linspace(a.r_start, a.r_end, a.num_locs, i),
              linspace(a.z_start, a.z_end, a.num_locs, i))

fp_rows(a, kvhs_adj) == [i \in 0 .. a.num_locs - 1 |-> fp_row(a, kvhs_adj, i)]

fake_probe(a) ==
    fp_rows(a, IF a.data \in {"Mach", "Velocity"} THEN fp_kvhs_adj.kvhs_adj ELSE <<>>)

\* the figure drawn from output_df when plot is 'R', 'Z' or 'psin'
fp_figure(a, df) ==
        IF a.plot = "None" THEN NoFig
        ELSE [kind |-> "line",
              x |-> [i \in DOMAIN df |->
                       CASE a.plot \in {"R", "r"} -> df[i].RZ[1]
                         [] a.plot \in {"Z", "z"} -> df[i].RZ[2]
                         [] a.plot \in {"psin", "Psin"} -> df[i].Psin],
              y |-> [i \in DOMAIN df |-> df[i].val]]

\* the probes of the calling script: along the centres of ring ir, across
\* the rings at the first knot, and across the grid from corner to corner
ProbeLines ==
    { [r_start |-> ToF(1), r_end |-> ToF(2 * MaxKnots - 1),
       z_start |-> ToF(2 * ir + 1), z_end |-> ToF(2 * ir + 1), num_locs |-> MaxKnots] :
        ir \in Rings }
    \cup
    { [r_start |-> ToF(1), r_end |-> ToF(1),
       z_start |-> ToF(1), z_end |-> ToF(2 * MaxRings - 1), num_locs |-> MaxRings],
      [r_start |-> ToF(0), r_end |-> ToF(2 * MaxKnots),
       z_start |-> ToF(0), z_end |-> ToF(2 * MaxRings), num_locs |-> 4] }

ProbeArgs ==
    { [r_start |-> l.r_start, r_end |-> l.r_end, z_start |-> l.z_start,
       z_end |-> l.z_end, num_locs |-> l.num_locs, data |-> d, plot |-> p] :
        l \in ProbeLines, d \in {"Te", "ne", "Mach", "Velocity"}, p \in {"None", "psin"} }

\* call_fake_probe with kvhs_adj written back into the dataset, as when kvhs
\* is the cached array and not a copy of it
call_fake_probe_drift_written_back ==
    /\ pc = "ready"
    /\ \E a \in ProbeArgs :
         /\ call' = [op |-> "fake_probe", args |-> a]
         /\ ret' = Returns("frame", fake_probe(a))
         /\ fig' = fp_figure(a, ret'.val)
         /\ out' = IF a.data \in {"Mach", "Velocity"} THEN fp_kvhs_adj.out ELSE <<>>
         /\ nc' = IF a.data \in {"Mach", "Velocity"}
                  THEN [nc EXCEPT !.KVHS = [ir \in Rings |-> [ik \in Knots |->
                                     FMul(fp_kvhs_adj.kvhs_adj[ir][ik], qtim)]]]
                  ELSE nc
    /\ pc' = "returned"
    /\ UNCHANGED <<dat_file, mesh, num_cells>>

call_fake_probe ==
    /\ pc = "ready"
    /\ \E a \in ProbeArgs :
         /\ call' = [op |-> "fake_probe", args |-> a]
         /\ ret' = Returns("frame", fake_probe(a))
         /\ fig' = fp_figure(a, ret'.val)
         /\ out' = IF a.data \in {"Mach", "Velocity"} THEN fp_kvhs_adj.out ELSE <<>>
    /\ pc' = "returned"
    /\ UNCHANGED <<nc, dat_file, mesh, num_cells>>

(***************************************************************************)
(* along_ring                                                              *)
(***************************************************************************)
ar_in_drift_region(add_df, ir, ik) ==
    /\ FLt(loc(add_df, ir).S_START, kss[ir][ik])
    /\ FLt(kss[ir][ik], loc(add_df, ir).S_END)

ar_add_drift(kvhs, add_df) ==
    [ir \in Rings |-> [ik \in Knots |->
        IF /\ ir < nrs /\ ik < nks[ir]
           /\ area[ir][ik] # 0
           /\ in_index(add_df, ir)
           /\ ar_in_drift_region(add_df, ir, ik)
        THEN FAdd(kvhs[ir][ik], loc(add_df, ir).Vdrift)
        ELSE kvhs[ir][ik]]]

\* the preprocessing of 'Mach' and 'Velocity'; only AttributeError is caught
ar_kvhs_adj ==
    LET scaling == FDiv(ToF(1), qtim)
        kvhs == [ir \in Rings |-> [ik \in Knots |-> FMul(nc.KVHS[ir][ik], scaling)]]
    IN  IF parse_dat_file = "AttributeError"
        THEN [exc |-> "none", kvhs_adj |-> kvhs, out |-> <<NotLoadedNote>>]
        ELSE IF parse_dat_file = "IndexError"
        THEN [exc |-> "IndexError", kvhs_adj |-> kvhs, out |-> <<>>]
        ELSE IF dat_file.pol_opt = 0
        THEN [exc |-> "none", kvhs_adj |-> kvhs, out |-> <<T13OffNote>>]
        ELSE IF dat_file.pol_opt = 1
        THEN IF parse_table = "IndexError"
             THEN [exc |-> "IndexError", kvhs_adj |-> kvhs, out |-> <<T13OnNote>>]
             ELSE [exc |-> "none", kvhs_adj |-> ar_add_drift(kvhs, dat_file.table),
                   out |-> <<T13OnNote>>]
        ELSE [exc |-> "none", kvhs_adj |-> kvhs, out |-> <<>>]

\* y, the data along the ring, before the (0, 0) points are removed, for
\* 'Mach', 'Velocity', 'DDLIMS' and the plain netCDF names (RingArgs passes
\* no force name)
ar_y(a) ==
    CASE a.dataname = "Mach" ->
           [ik \in Knots |-> FDiv(ar_kvhs_adj.kvhs_adj[a.ring][ik], fp_cs(a.ring, ik))]
      [] a.dataname = "Velocity" -> ar_kvhs_adj.kvhs_adj[a.ring]
      [] a.dataname = "DDLIMS" ->
           IF a.charge.kind = "all"
           THEN [ik \in Knots |-> FMul(sum_axis0(nc.DDLIMS)[a.ring][ik], nc.ABSFAC)]
           ELSE [ik \in Knots |->
                   FMul(nc.DDLIMS[PyIndex(a.charge.v, MaxCharge + 1)][a.ring][ik], nc.ABSFAC)]
      [] OTHER -> nc[a.dataname][a.ring]

RECURSIVE ar_kept(_, _, _, _)
\* the indices from i on that are not (0, 0) data points, in order
ar_kept(x, y, i, n) ==
    IF i >= n THEN <<>>
    ELSE (IF FEq(x[i], ToF(0)) /\ FEq(y[i], ToF(0)) THEN <<>> ELSE <<i>>)
         \o ar_kept(x, y, i + 1, n)

\* x and y without the dropped points
ar_figure(x, y, kept) ==
    [kind |-> "line",
     x |-> [j \in 1 .. Len(kept) |-> x[kept[j]]],
     y |-> [j \in 1 .. Len(kept) |-> y[kept[j]]]]

\* the x, y returned (or the exception raised), the lines printed and the
\* figure
along_ring(a) ==
    LET x == [i \in Knots |-> nc.KSB[a.ring][i + 1]]
        velocity == a.dataname \in {"Mach", "Velocity"}
    IN  IF velocity /\ ar_kvhs_adj.exc # "none"
        THEN [ret |-> Raises(ar_kvhs_adj.exc), out |-> ar_kvhs_adj.out, fig |-> NoFig]
        ELSE [ret |-> Returns("x, y",
                              ar_figure(x, ar_y(a), ar_kept(x, ar_y(a), 0, MaxKnots))),
              out |-> IF velocity THEN ar_kvhs_adj.out ELSE <<>>,
              fig |-> IF a.plot_it
                      THEN ar_figure(x, ar_y(a), ar_kept(x, ar_y(a), 0, MaxKnots))
                      ELSE NoFig]

\* the rings and datanames of the calling script
RingArgs ==
    [ring : Rings, dataname : {"Mach", "Velocity", "KVHS"}, charge : {None_},
     plot_it : BOOLEAN]
    \cup
    [ring : Rings, dataname : {"DDLIMS"}, charge : {All_, Charge(0)}, plot_it : BOOLEAN]

call_along_ring ==
    /\ pc = "ready"
    /\ \E a \in RingArgs :
         /\ call' = [op |-> "along_ring", args |-> a]
         /\ ret' = along_ring(a).ret
         /\ out' = along_ring(a).out
         /\ fig' = along_ring(a).fig
    /\ pc' = "returned"
    /\ UNCHANGED <<nc, dat_file, mesh, num_cells>>

(***************************************************************************)
(* calculate_forces.  The physical constants are far outside the integers  *)
(* of the model; each is given a small rational in its place.              *)
(***************************************************************************)
col_log == 15
\* the default of imp_amu
imp_amu_default == ToF(180)
qe == <<1, 4>>
amu_kg == <<1, 20>>
SlowingDown == <<3, 2>>

\* force.lower() on the names passed for a force
lower(force) ==
    CASE force \in {"FF", "ff"} -> "ff"
      [] force \in {"FPG", "fpg"} -> "fpg"
      [] force \in {"FeG", "feg"} -> "feg"
      [] force \in {"FiG", "fig"} -> "fig"
      [] force \in {"FE", "fe"} -> "fe"
      [] force \in {"Fnet", "fnet"} -> "fnet"
      [] OTHER -> "other"

\* numpy arithmetic on arrays, entry by entry
Each2(F(_, _), a, b) == [k \in DOMAIN a |-> F(a[k], b[k])]
Times(x, a) == [k \in DOMAIN a |-> FMul(x, a[k])]

T13OnForces == Message("Additional poloidal drift option T13 was ON.")
T13Unknown == Message("Warning: Unable to determine if T13 was on/off.")
ChargeNeeded == Message("Error: Charge of ion needed for FF calculation.")
BetaNote == Message("FiG: Beta = ")

\* the try block that sets t13; t13 is left unbound when the block is left
\* by an exception or by neither branch
cf_t13 ==
    IF parse_dat_file # "ok" THEN [t13 |-> "unbound", out |-> <<T13Unknown>>]
    ELSE IF dat_file.pol_opt = 0 THEN [t13 |-> "False", out |-> <<>>]
    ELSE IF dat_file.pol_opt = 1 THEN [t13 |-> "True", out |-> <<T13OnForces>>]
    ELSE [t13 |-> "unbound", out |-> <<>>]

\* np.power(charge, 2)
cf_charge2(charge) == ToF(charge.v * charge.v)

cf_tau_s(ti, ne, charge) ==
    [k \in DOMAIN ti |->
        FDiv(FMul(FMul(FMul(SlowingDown, crmi), ti[k]), FSqrt(FDiv(ti[k], crmb))),
             FMul(FMul(FMul(FAdd(ToF(1), FDiv(crmb, crmi)), ne[k]), cf_charge2(charge)),
                  ToF(col_log)))]

\* ff from the background velocity vi
cf_ff_of(vi, tau_s, vz_mult) ==
    [k \in DOMAIN vi |->
        FDiv(FMul(FMul(crmi, amu_kg), FSub(vi[k], FMul(vz_mult, vi[k]))), tau_s[k])]

\* the friction force block: what it computes, or how it is left
cf_ff(ti, ne, t13, vz_mult, charge, no_core) ==
    IF charge.kind = "None"
    THEN [ret |-> Returns("None", 0), out |-> <<ChargeNeeded>>]
    ELSE IF t13 = "unbound"
    THEN [ret |-> Raises("UnboundLocalError"), out |-> <<>>]
    ELSE IF t13 = "True"
    THEN LET vi == read_data_2d_kvhs_t13(FALSE)
         IN  IF vi.ret.kind # "array"
             THEN [ret |-> Raises("TypeError"), out |-> vi.out]
             ELSE [ret |-> Returns("array",
                             cf_ff_of(vi.ret.val, cf_tau_s(ti, ne, charge), vz_mult)),
                   out |-> vi.out]
    ELSE [ret |-> Returns("array",
                    cf_ff_of(read_data_2d("KVHS", None_, Num(FDiv(ToF(1), qtim)),
                                          FALSE, no_core).val,
                             cf_tau_s(ti, ne, charge), vz_mult)),
          out |-> <<>>]

cf_feg(charge, scaling, no_core) ==
    Times(FMul(<<71, 100>>, cf_charge2(charge)),
          read_data_2d("KFEGS", None_, Num(scaling), FALSE, no_core).val)

\* np.power(mu, 5/2) and np.power(mu, 3/2) through the square root
cf_beta(charge) ==
    LET mu == FDiv(crmi, FAdd(crmi, crmb))
        mu52 == FMul(FMul(mu, mu), FSqrt(mu))
        mu32 == FMul(mu, FSqrt(mu))
        inner == FSub(FMul(<<11, 10>>, mu52), FMul(<<7, 20>>, mu32))
        upper == FSub(FAdd(mu, FMul(FMul(FMul(ToF(5), FSqrt(ToF(2))), cf_charge2(charge)),
                                    inner)),
                      ToF(1))
        lower_ == FAdd(FSub(<<13, 5>>, FMul(ToF(2), mu)), FMul(<<27, 5>>, FMul(mu, mu)))
    IN  FDiv(FMul(ToF(3), upper), lower_)

cf_fig(charge, scaling, no_core) ==
    Times(cf_beta(charge), read_data_2d("KFIGS", None_, Num(scaling), FALSE, no_core).val)

cf_fe(charge, scaling, no_core) ==
    Times(FMul(ToF(charge.v), qe),
          read_data_2d("E_POL", None_, Num(scaling), FALSE, no_core).val)

\* cf_rest with the electric field force left out of the net force
cf_rest_without_fe(f, ff, out_, charge, scaling, no_core) ==
    IF f = "fpg" THEN [ret |-> Returns("int", 0), out |-> out_]
    ELSE IF f = "other" THEN [ret |-> Returns("None", 0), out |-> out_]
    ELSE IF charge.kind = "None" THEN [ret |-> Raises("TypeError"), out |-> out_]
    ELSE IF f = "feg"
    THEN [ret |-> Returns("array", cf_feg(charge, scaling, no_core)), out |-> out_]
    ELSE IF f = "fig"
    THEN [ret |-> Returns("array", cf_fig(charge, scaling, no_core)),
          out |-> Append(out_, BetaNote)]
    ELSE IF f = "fe"
    THEN [ret |-> Returns("array", cf_fe(charge, scaling, no_core)), out |-> out_]
    ELSE [ret |-> Returns("array",
                    Each2(FAdd,
                      Each2(FAdd, [k \in DOMAIN ff |-> FAdd(ff[k], ToF(0))],
                            cf_feg(charge, scaling, no_core)),
                      cf_fig(charge, scaling, no_core))),
          out |-> Append(out_, BetaNote)]

\* the blocks after the friction force; ff is the array of the first block
\* (any array when the force is not 'fnet'), out what has been printed
cf_rest(f, ff, out_, charge, scaling, no_core) ==
    IF f = "fpg" THEN [ret |-> Returns("int", 0), out |-> out_]
    ELSE IF f = "other" THEN [ret |-> Returns("None", 0), out |-> out_]
    ELSE IF charge.kind = "None" THEN [ret |-> Raises("TypeError"), out |-> out_]
    ELSE IF f = "feg"
    THEN [ret |-> Returns("array", cf_feg(charge, scaling, no_core)), out |-> out_]
    ELSE IF f = "fig"
    THEN [ret |-> Returns("array", cf_fig(charge, scaling, no_core)),
          out |-> Append(out_, BetaNote)]
    ELSE IF f = "fe"
    THEN [ret |-> Returns("array", cf_fe(charge, scaling, no_core)), out |-> out_]
    ELSE [ret |-> Returns("array",
                    Each2(FAdd,
                      Each2(FAdd,
                        Each2(FAdd, [k \in DOMAIN ff |-> FAdd(ff[k], ToF(0))],
                              cf_feg(charge, scaling, no_core)),
                        cf_fig(charge, scaling, no_core)),
                      cf_fe(charge, scaling, no_core))),
          out |-> Append(out_, BetaNote)]

cf_after_ff(f, ff, out_, charge, scaling, no_core) ==
    IF ff.ret.kind # "array" \/ f = "ff"
    THEN [ret |-> ff.ret, out |-> out_ \o ff.out]
    ELSE cf_rest(f, ff.ret.val, out_ \o ff.out, charge, scaling, no_core)

\* the value returned (or the exception raised) and the lines printed
calculate_forces(force, vz_mult, charge, no_core, imp_amu) ==
    LET ti == read_data_2d("KTIBS", None_, Num(ToF(1)), FALSE, no_core).val
        ne == read_data_2d("KNBS", None_, Num(ToF(1)), FALSE, no_core).val
        fact == FDiv(FMul(FMul(qtim, qtim), qe), FMul(imp_amu, amu_kg))
        scaling == FDiv(qe, fact)
    IN  IF lower(force) \in {"ff", "fnet"}
        THEN cf_after_ff(lower(force),
                         cf_ff(ti, ne, cf_t13.t13, vz_mult, charge, no_core),
                         cf_t13.out, charge, scaling, no_core)
        ELSE cf_rest(lower(force), <<>>, cf_t13.out, charge, scaling, no_core)

\* the forces, charges and impurity masses of the calling script
ForceArgs ==
    [force : {"FF", "FPG", "FeG", "fig", "FE", "Fnet", "fnet"},
     vz_mult : {ToF(0), <<1, 2>>},
     charge : {None_, Charge(2)},
     no_core : BOOLEAN,
     imp_amu : {imp_amu_default}]

call_calculate_forces ==
    /\ pc = "ready"
    /\ \E a \in ForceArgs :
         \E r \in {calculate_forces(a.force, a.vz_mult, a.charge, a.no_core, a.imp_amu)} :
             /\ call' = [op |-> "calculate_forces", args |-> a]
             /\ ret' = r.ret
             /\ out' = r.out
    /\ pc' = "returned"
    /\ fig' = NoFig
    /\ UNCHANGED <<nc, dat_file, mesh, num_cells>>

(***************************************************************************)
(* plot_contour_polygon: the data, mesh, normalisation, separatrix and     *)
(* probe patches it hands to matplotlib.                                   *)
(***************************************************************************)
CrmbNote == Message("CRMB = ")
TipNotGiven == Message("Error: Location of tip of probe not given.")

\* kvhs / cs with cs = np.sqrt((te + ti) / mi); kvhs is an array or a number
pcp_mach(te, ti, kvhs, is_array) ==
    [k \in DOMAIN te |->
        FDiv(IF is_array THEN kvhs[k] ELSE ToF(kvhs),
             FSqrt(FDiv(FAdd(te[k], ti[k]), FMul(crmb, AmuFactor))))]

pcp_mach_t13(te, ti, kvhs) ==
    IF kvhs.ret.kind = "raise" THEN kvhs
    ELSE IF kvhs.ret.kind = "None" THEN [ret |-> Raises("TypeError"), out |-> kvhs.out]
    ELSE [ret |-> Returns("array",
                    pcp_mach(te, ti, kvhs.ret.val, kvhs.ret.kind = "array")),
          out |-> kvhs.out]

pcp_mach_kvhs(te, ti, kvhs) ==
    IF kvhs.kind = "raise" THEN [ret |-> kvhs, out |-> <<>>]
    ELSE [ret |-> Returns("array", pcp_mach(te, ti, kvhs.val, TRUE)),
          out |-> <<CrmbNote>>]

\* the branch on dataname: the data (or the exception) and the lines printed
pcp_data(a) ==
    CASE a.dataname = "KVHSimp" -> read_data_2d_kvhs_t13(a.no_core)
      [] a.dataname = "Ring" ->
           [ret |-> read_data_2d("KTEBS", None_, Ring_, FALSE, a.no_core), out |-> <<>>]
      [] a.dataname = "KVHSimp - Mach" ->
           pcp_mach_t13(read_data_2d("KTEBS", None_, Num(ToF(1)), FALSE, a.no_core).val,
                        read_data_2d("KTIBS", None_, Num(ToF(1)), FALSE, a.no_core).val,
                        read_data_2d_kvhs_t13(FALSE))
      [] a.dataname = "KVHS - Mach" ->
           pcp_mach_kvhs(read_data_2d("KTEBS", None_, Num(ToF(1)), FALSE, a.no_core).val,
                         read_data_2d("KTIBS", None_, Num(ToF(1)), FALSE, a.no_core).val,
                         read_data_2d("KVHS", a.charge, a.scaling, a.fix_fill, a.no_core))
      [] lower(a.dataname) \in {"ff", "fig", "feg", "fpg", "fe", "fnet"} ->
           calculate_forces(a.dataname, a.vz_mult, a.charge, a.no_core, imp_amu_default)
      [] OTHER ->
           [ret |-> read_data_2d(a.dataname, a.charge, a.scaling, a.fix_fill, a.no_core),
            out |-> <<>>]

RECURSIVE not_nan_idx(_, _, _)
\* np.where(~np.isnan(data))[0], from index i on
not_nan_idx(data, i, n) ==
    IF i >= n THEN <<>>
    ELSE (IF IsNaN(data[i]) THEN <<>> ELSE <<i>>) \o not_nan_idx(data, i + 1, n)

FMinOf(data) ==
    LET vals == {data[k] : k \in DOMAIN data}
    IN  CHOOSE m \in vals : \A x \in vals : ~FLt(x, m)

\* data[data == 0.0] = 1e-3
pcp_no_zeros(data) ==
    [k \in DOMAIN data |-> IF FEq(data[k], ToF(0)) THEN <<1, 1000>> ELSE data[k]]

\* the data as the normalisation leaves it, and vmin and vmax
pcp_norm(normtype, data) ==
    CASE normtype = "linear" ->
           [data |-> data, vmin |-> FMinOf(data), vmax |-> FMaxOf(data)]
      [] normtype = "log" ->
           [data |-> pcp_no_zeros(data), vmin |-> FMinOf(pcp_no_zeros(data)),
            vmax |-> FMaxOf(pcp_no_zeros(data))]
      [] normtype = "symlin" ->
           [data |-> data,
            vmin |-> FNeg(FMaxOf([k \in DOMAIN data |-> FAbs(data[k])])),
            vmax |-> FMaxOf([k \in DOMAIN data |-> FAbs(data[k])])]
      [] normtype = "symlog" ->
           [data |-> pcp_no_zeros(data),
            vmin |-> FNeg(FMaxOf([k \in DOMAIN data |-> FAbs(pcp_no_zeros(data)[k])])),
            vmax |-> FMaxOf([k \in DOMAIN data |-> FAbs(pcp_no_zeros(data)[k])])]

\* 'n in show_cp' and show_cp.index(n)
cp_in(n, show_cp) == \E i \in 1 .. Len(show_cp) : show_cp[i] = Num(ToF(n))
cp_index(n, show_cp) ==
    (CHOOSE i \in 1 .. Len(show_cp) :
        /\ show_cp[i] = Num(ToF(n))
        /\ \A j \in 1 .. i - 1 : show_cp[j] # Num(ToF(n))) - 1

cp_width == <<3, 100>>
Rectangle(x, y, width, height) == [x |-> x, y |-> y, width |-> width, height |-> height]

\* the patch of probe n with its tip at ptip_tmp
cp_rectangle(n, ptip_tmp) ==
    CASE n = 1 -> Rectangle(ptip_tmp, FSub(<<-185, 1000>>, FDiv(cp_width, ToF(2))),
                            FSub(<<238, 100>>, ptip_tmp), cp_width)
      [] n = 2 -> Rectangle(FSub(<<1485, 1000>>, FDiv(cp_width, ToF(2))), ptip_tmp,
                            cp_width, FNeg(FSub(ptip_tmp, <<1172, 1000>>)))
      [] n = 3 -> Rectangle(FSub(<<1485, 1000>>, FDiv(cp_width, ToF(2))), <<-125, 100>>,
                            cp_width, FSub(ptip_tmp, <<-125, 100>>))

RECURSIVE cp_patches(_, _, _, _)
\* the blocks of probes n, n + 1, ..., 3; acc holds the patches added so far
cp_patches(n, show_cp, ptip, acc) ==
    IF n > 3 THEN [exc |-> "none", patches |-> acc]
    ELSE IF ~cp_in(n, show_cp) THEN cp_patches(n + 1, show_cp, ptip, acc)
    ELSE IF cp_index(n, show_cp) >= Len(ptip) THEN [exc |-> "IndexError", patches |-> acc]
    ELSE IF ptip[cp_index(n, show_cp) + 1].kind = "None"
    THEN [exc |-> "TypeError", patches |-> acc]
    ELSE cp_patches(n + 1, show_cp, ptip,
                    Append(acc, cp_rectangle(n, ptip[cp_index(n, show_cp) + 1].v)))

mr_patches ==
    << Rectangle(<<132, 100>>, FSub(<<-1363, 1000>>, <<1, 100>>),
                 FSub(<<137, 100>>, <<132, 100>>), <<1, 100>>),
       Rectangle(<<1404, 1000>>, FSub(<<-125, 100>>, <<1, 100>>),
                 FSub(<<1454, 1000>>, <<1404, 1000>>), <<1, 100>>) >>

\* from the removal of the nan cells to the end; keep is not_nan_idx
pcp_draw(a, data, keep, out_) ==
    LET shown == [j \in 1 .. Len(keep) |-> data[keep[j]]]
        polys == [j \in 1 .. Len(keep) |-> mesh[keep[j] + 1]]
        show_cp == a.show_cp.items
        ptip == a.ptip.items
        \* ptip is a list by now and a list never equals None
        tip_missing == Len(show_cp) > 0 /\ FALSE
        out1 == IF tip_missing THEN Append(out_, TipNotGiven) ELSE out_
        probes == cp_patches(1, show_cp, ptip, <<>>)
    IN  IF Len(keep) = 0
        THEN [ret |-> Raises("ValueError"), out |-> out_, fig |-> NoFig]
        ELSE IF probes.exc # "none"
        THEN [ret |-> Raises(probes.exc), out |-> out1, fig |-> NoFig]
        ELSE [ret |-> Returns("Figure", 0),
              out |-> out1,
              fig |-> [kind |-> "contour",
                       mesh |-> polys,
                       data |-> pcp_norm(a.normtype, shown).data,
                       vmin |-> pcp_norm(a.normtype, shown).vmin,
                       vmax |-> pcp_norm(a.normtype, shown).vmax,
                       cells |-> keep,
                       sep |-> IF a.plot_sep THEN get_sep ELSE <<>>,
                       patches |-> probes.patches
                                   \o (IF a.show_mr THEN mr_patches ELSE <<>>)]]

\* np.isnan(data) and data[not_nan_idx] fail on what is not an array; the
\* data and the indices are worked out once and handed on
pcp_plot(a, d) ==
    IF d.ret.kind = "raise" THEN [ret |-> d.ret, out |-> d.out, fig |-> NoFig]
    ELSE IF d.ret.kind # "array"
    THEN [ret |-> Raises("TypeError"), out |-> d.out, fig |-> NoFig]
    ELSE CHOOSE r \in UNION {{pcp_draw(a, data, keep, d.out) :
                                 keep \in {not_nan_idx(data, 0, num_cells)}} :
                             data \in {d.ret.val @@ <<>>}} : TRUE

plot_contour_polygon(a) == pcp_plot(a, pcp_data(a))

\* None where a number may be given
NoNumber == [kind |-> "None", v |-> NaN]

\* a value that is not a list, and a list
NotList(x) == [is_list |-> FALSE, items |-> <<x>>]
List(xs) == [is_list |-> TRUE, items |-> xs]

\* the plots of the calling script: every dataname with the core shown and
\* masked, and a plain variable with the probes and the other options
PlotDefaults(datanames, charges, normtypes) ==
    [dataname : datanames, charge : charges, scaling : {Num(ToF(1))},
     normtype : normtypes, plot_sep : {TRUE}, show_cp : {NotList(NoNumber)},
     ptip : {NotList(NoNumber)}, show_mr : {FALSE}, fix_fill : {FALSE},
     no_core : BOOLEAN, vz_mult : {ToF(0)}]
PlotArgs ==
    PlotDefaults({"KVHSimp", "Ring", "KVHSimp - Mach", "KVHS - Mach", "KVHS", "KES"},
                 {None_}, {"linear", "log"})
    \cup PlotDefaults({"DDLIMS"}, {All_, Charge(0)}, {"linear", "log"})
    \cup PlotDefaults({"FF", "fig", "FeG", "fpg", "FE", "Fnet"}, {None_, Charge(1)},
                      {"linear"})
    \cup [dataname : {"KTEBS"}, charge : {None_}, scaling : {Num(ToF(1))},
          normtype : {"symlin", "symlog"}, plot_sep : {FALSE},
          show_cp : {NotList(Num(ToF(1))), List(<<Num(ToF(2)), Num(ToF(3))>>)},
          ptip : {NotList(NoNumber), NotList(Num(<<9, 4>>)),
                  List(<<Num(<<5, 4>>), Num(<<-1, 1>>)>>)},
          show_mr : BOOLEAN, fix_fill : BOOLEAN, no_core : {FALSE}, vz_mult : {ToF(0)}]

call_plot_contour_polygon ==
    /\ pc = "ready"
    /\ \E a \in PlotArgs :
         \E r \in {plot_contour_polygon(a)} :
             /\ call' = [op |-> "plot_contour_polygon", args |-> a]
             /\ ret' = r.ret
             /\ out' = r.out
             /\ fig' = r.fig
    /\ pc' = "returned"
    /\ UNCHANGED <<nc, dat_file, mesh, num_cells>>

(***************************************************************************)
(* The calling script goes on after a call.                                *)
(***************************************************************************)
\* the methods that compute a value from the object without plotting the grid
QueryOps == {"read_data_2d", "read_data_2d_kvhs_t13", "get_sep", "calculate_forces",
             "find_ring_knot", "fake_probe", "along_ring"}

\* what the call c returns, prints and draws on the object as it is now
ResultOf(c) ==
    CASE c.op = "read_data_2d" ->
           [ret |-> read_data_2d(c.args.dataname, c.args.charge, c.args.scaling,
                                 c.args.fix_fill, c.args.no_core),
            out |-> <<>>, fig |-> NoFig]
      [] c.op = "read_data_2d_kvhs_t13" ->
           CHOOSE x \in {[ret |-> r.ret, out |-> r.out, fig |-> NoFig] :
                            r \in {read_data_2d_kvhs_t13(c.args.no_core)}} : TRUE
      [] c.op = "get_sep" ->
           [ret |-> Returns("lines", get_sep), out |-> <<>>, fig |-> NoFig]
      [] c.op = "calculate_forces" ->
           CHOOSE x \in {[ret |-> r.ret, out |-> r.out, fig |-> NoFig] :
                            r \in {calculate_forces(c.args.force, c.args.vz_mult,
                                                    c.args.charge, c.args.no_core,
                                                    c.args.imp_amu)}} : TRUE
      [] c.op = "find_ring_knot" ->
           [ret |-> Returns("tuple", find_ring_knot(c.args.r, c.args.z)),
            out |-> <<>>, fig |-> NoFig]
      [] c.op = "fake_probe" ->
           CHOOSE x \in {[ret |-> Returns("frame", df),
                          out |-> IF c.args.data \in {"Mach", "Velocity"}
                                  THEN fp_kvhs_adj.out ELSE <<>>,
                          fig |-> fp_figure(c.args, df)] :
                            df \in {fake_probe(c.args)}} : TRUE
      [] c.op = "along_ring" -> along_ring(c.args)

\* the script makes the call that has just ended once more, with the same
\* arguments
call_again ==
    /\ pc = "returned"
    /\ call.op \in QueryOps
    /\ \E r \in {ResultOf(call)} :
         /\ ret' = r.ret
         /\ out' = r.out
         /\ fig' = r.fig
    /\ pc' = "repeated"
    /\ UNCHANGED <<nc, dat_file, mesh, num_cells, call>>

next_statement ==
    /\ pc \in {"returned", "repeated"}
    /\ pc' = "ready"
    /\ call' = NoCall
    /\ ret' = NoRet
    /\ out' = <<>>
    /\ fig' = NoFig
    /\ UNCHANGED <<nc, dat_file, mesh, num_cells>>

Next ==
    \/ OedgePlots_init
    \/ call_read_data_2d
    \/ call_get_sep
    \/ call_find_ring_knot
    \/ next_statement

Spec == Init /\ [][Next]_vars

\* the calls that read the .dat file
NextDat ==
    \/ OedgePlots_init
    \/ add_dat_file
    \/ call_read_data_2d_kvhs_t13
    \/ call_fake_probe
    \/ call_along_ring
    \/ next_statement

SpecDat == Init /\ [][NextDat]_vars

\* the queries, each followed or not by the same call again
NextQuery ==
    \/ OedgePlots_init
    \/ add_dat_file
    \/ call_read_data_2d
    \/ call_read_data_2d_kvhs_t13
    \/ call_get_sep
    \/ call_calculate_forces
    \/ call_find_ring_knot
    \/ call_fake_probe
    \/ call_along_ring
    \/ call_again
    \/ next_statement

SpecQuery == Init /\ [][NextQuery]_vars

\* the forces and the contour plots
NextPlot ==
    \/ OedgePlots_init
    \/ add_dat_file
    \/ call_calculate_forces
    \/ call_plot_contour_polygon
    \/ next_statement

SpecPlot == Init /\ [][NextPlot]_vars

\* the forces alone
NextForces ==
    \/ OedgePlots_init
    \/ add_dat_file
    \/ call_calculate_forces
    \/ next_statement

SpecForces == Init /\ [][NextForces]_vars

(***************************************************************************)
(* What the claims speak of: the cells of non-zero area and their order.   *)
(***************************************************************************)
GridCells == {c \in Rings \X Knots : c[1] < nc.NRS /\ c[2] < nc.NKS[c[1]]}
NonZeroCells == {c \in GridCells : nc.KAREAS[c[1]][c[2]] # 0}
Before(p, q) == p[1] < q[1] \/ (p[1] = q[1] /\ p[2] < q[2])
\* the place of cell c among the cells of non-zero area, ring-major then by
\* knot, counted from 0
Rank(c) == Cardinality({q \in NonZeroCells : Before(q, c)})
\* the first four corners of the polygon of cell c
PolygonOf(c) ==
    LET q == nc.KORPG[c[1]][c[2]] - 1
    IN  << <<nc.RVERTP[q][0], nc.ZVERTP[q][0]>>, <<nc.RVERTP[q][1], nc.ZVERTP[q][1]>>,
           <<nc.RVERTP[q][2], nc.ZVERTP[q][2]>>, <<nc.RVERTP[q][3], nc.ZVERTP[q][3]>> >>
Constructed == pc # "new"
Called(op) == pc = "returned" /\ call.op = op

\* C1: after __init__, mesh holds exactly one 4-vertex polygon per position
\* (ir, ik) of non-zero area, in ring-major then knot order, built from the
\* first four vertices of cell KORPG[ir, ik] - 1; zero-area positions
\* contribute nothing and num_cells is the number of polygons in mesh.
C1_MeshIsNonZeroCells ==
    Constructed =>
        /\ Len(mesh) = Cardinality(NonZeroCells)
        /\ num_cells = Len(mesh)
        /\ \A c \in NonZeroCells : mesh[Rank(c) + 1] = PolygonOf(c)

\* a grid with a zero-area cell ahead of a cell of non-zero area has been built
C1_Witness ==
    /\ Called("__init__")
    /\ \E z \in GridCells \ NonZeroCells : \E c \in NonZeroCells : Before(z, c)
    /\ Len(mesh) >= 2

\* C2: read_data_2d returns exactly num_cells entries and its k-th entry
\* belongs to the grid position of the k-th polygon of mesh, whatever the
\* dataname, charge, scaling, fix_fill and no_core.
C2_DataAlignedWithMesh ==
    (Called("read_data_2d") /\ ret.kind = "array") =>
        LET a == call.args
            raw == raw_data_of(a.dataname, a.charge)
        IN  /\ DOMAIN ret.val = 0 .. num_cells - 1
            /\ num_cells = Len(mesh)
            /\ num_cells = Cardinality(NonZeroCells)
            /\ \A c \in NonZeroCells :
                 LET k == Rank(c)
                 IN  /\ mesh[k + 1] = PolygonOf(c)
                     /\ \/ ret.val[k] = rd_value(raw, c[1], c[2], a.charge, a.scaling, a.no_core)
                        \/ a.fix_fill /\ IsNaN(ret.val[k])

\* read_data_2d has run on a grid where a zero-area cell precedes other cells
C2_Witness ==
    /\ Called("read_data_2d")
    /\ ret.kind = "array"
    /\ call.args.dataname = "DDLIMS"
    /\ \E z \in GridCells \ NonZeroCells : \E c \in NonZeroCells : Before(z, c)

\* whether the centre of cell c lies strictly inside the bounding box of its
\* polygon (the polygons of the grid are axis-parallel squares)
CentreInside(c) ==
    LET p == PolygonOf(c)
        r == nc.RS[c[1]][c[2]]
        z == nc.ZS[c[1]][c[2]]
    IN  /\ \E i, j \in 1 .. 4 : p[i][1] < r /\ r < p[j][1]
        /\ \E i, j \in 1 .. 4 : p[i][2] < z /\ z < p[j][2]

\* C3: the cell-centre check is only a warning: a cell of non-zero area whose
\* centre lies outside its polygon is reported, is still appended to mesh and
\* counted, the scan goes on with the remaining cells and construction ends.
C3_CentreCheckOnlyWarns ==
    (Constructed /\ call.op = "__init__") =>
        /\ pc = "returned"
        /\ ret.kind # "raise"
        /\ num_cells = Cardinality(NonZeroCells)
        /\ \A c \in NonZeroCells :
             /\ Rank(c) + 1 <= Len(mesh)
             /\ mesh[Rank(c) + 1] = PolygonOf(c)
             /\ ~CentreInside(c) <=>
                  \E i \in 1 .. Len(out) : out[i] = CentreWarning(c[1], c[2])

\* construction has ended although a cell ahead of the last one was reported
C3_Witness ==
    /\ Called("__init__")
    /\ \E c \in NonZeroCells :
         /\ Rank(c) + 1 < num_cells
         /\ ~CentreInside(c)
         /\ \E i \in 1 .. Len(out) : out[i] = CentreWarning(c[1], c[2])

\* the array a dataname stands for, before any charge selection
SourceArray(dataname) == IF dataname = "Snorm" THEN Snorm ELSE nc[dataname]

\* C4: for a numeric scaling s, charge=None gives raw[ir][ik] * s, charge='all'
\* gives (sum of raw over its first dimension)[ir][ik] * s and an integer
\* charge c gives raw[c + 1][ir][ik] * s, for every cell of non-zero area
\* (fix_fill left off; cells masked by no_core aside).
C4_ChargeSelection ==
    (Called("read_data_2d") /\ ret.kind = "array"
       /\ call.args.scaling.kind = "num" /\ ~call.args.fix_fill) =>
        LET a == call.args
            raw == SourceArray(a.dataname)
            s == a.scaling.v
        IN  \A c \in NonZeroCells :
              LET ir == c[1]
                  ik == c[2]
                  expected ==
                    CASE a.charge.kind = "None" -> FMul(raw[ir][ik], s)
                      [] a.charge.kind = "all" ->
                           FMul(FSum([iz \in DOMAIN raw |-> raw[iz][ir][ik]],
                                     Cardinality(DOMAIN raw)), s)
                      [] a.charge.kind = "int" -> FMul(raw[a.charge.v + 1][ir][ik], s)
              IN  \/ a.no_core /\ ir < nc.IRSEP - 1
                  \/ ret.val[Rank(c)] = expected

\* a charge state has been read with a scaling other than one
C4_Witness ==
    /\ Called("read_data_2d")
    /\ ret.kind = "array"
    /\ call.args.charge.kind = "int"
    /\ call.args.charge.v >= 0
    /\ call.args.scaling = Num(ToF(-2))
    /\ ~call.args.fix_fill /\ ~call.args.no_core

\* C5 as claimed: with fix_fill=True exactly the entries holding the netCDF
\* fill value become zero and every other entry is left as it is, so that
\* without fill values the result is that of fix_fill=False.
FillValuesZeroed(data, base) ==
    \A k \in DOMAIN base : data[k] = IF base[k] = ToF(FillVal) THEN ToF(0) ELSE base[k]

C5_FixFillOnlyFillValues ==
    (Called("read_data_2d") /\ ret.kind = "array" /\ call.args.fix_fill) =>
        FillValuesZeroed(ret.val,
            read_data_2d(call.args.dataname, call.args.charge, call.args.scaling,
                         FALSE, call.args.no_core).val)

\* C6: with no_core=True, a numeric scaling and fix_fill=False, every cell on
\* a core ring (ir < IRSEP - 1) reads 0.0 and every other cell reads what the
\* call with no_core=False gives.
\* the read of the same data with no_core=False and fix_fill=False
UnmaskedRead(a) == read_data_2d(a.dataname, a.charge, a.scaling, FALSE, FALSE).val

CoreMasked(data, base) ==
    \A c \in NonZeroCells :
        IF c[1] < nc.IRSEP - 1
        THEN data[Rank(c)] = ToF(0)
        ELSE data[Rank(c)] = base[Rank(c)]

C8_SepIsOpenPolyline ==
    Called("get_sep") =>
        LET row == nc.IRSEP - 1
            nsep == nc.NKS[row]
            P(i) == <<nc.RVERTP[nc.KORPG[row][i]][0], nc.ZVERTP[nc.KORPG[row][i]][0]>>
        IN  /\ Len(ret.val) = nsep - 1
            /\ \A i \in 0 .. nsep - 2 : ret.val[i + 1] = <<P(i), P(i + 1)>>

\* C9 as claimed: with no .dat file loaded read_data_2d_kvhs_t13 reports
\* "Run 'add_dat_file' first" and ends without raising an exception.
C9_NoDatFileIsNonFatal ==
    (Called("read_data_2d_kvhs_t13") /\ ~dat_file.loaded) =>
        /\ \E i \in 1 .. Len(out) : out[i] = NotLoadedError
        /\ ret.kind # "raise"

\* the velocity the claim gives cell (ir, ik): KVHS / QTIM, plus the Vdrift of
\* the table's row for ring ir when the ring is listed and the cell's KSS lies
\* strictly between S_START and S_END
DriftRows(ir, ik) ==
    {row \in dat_file.table :
        /\ row.IR = ToF(ir)
        /\ FLt(row.S_START, nc.KSS[ir][ik])
        /\ FLt(nc.KSS[ir][ik], row.S_END)}
ClaimedVelocity(ir, ik) ==
    LET base == FDiv(nc.KVHS[ir][ik], nc.QTIM)
    IN  IF DriftRows(ir, ik) = {} THEN base
        ELSE FAdd(base, (CHOOSE row \in DriftRows(ir, ik) : TRUE).Vdrift)

\* what each of the three routines gives for the cells of non-zero area
T13VelocitiesAsClaimed ==
    (Called("read_data_2d_kvhs_t13") /\ ~call.args.no_core) =>
        /\ ret.kind = "array"
        /\ \A c \in NonZeroCells : ret.val[Rank(c)] = ClaimedVelocity(c[1], c[2])
ProbeVelocitiesAsClaimed ==
    (Called("fake_probe") /\ call.args.data = "Velocity") =>
        \A i \in DOMAIN ret.val :
            LET c == find_ring_knot(ret.val[i].RZ[1], ret.val[i].RZ[2])
            IN  c \in NonZeroCells => ret.val[i].val = ClaimedVelocity(c[1], c[2])
RingVelocitiesAsClaimed ==
    (Called("along_ring") /\ call.args.dataname = "Velocity") =>
        /\ ret.kind # "raise"
        /\ \A c \in NonZeroCells :
             c[1] = call.args.ring => ret.val.y[c[2] + 1] = ClaimedVelocity(c[1], c[2])

\* C10 as claimed: in read_data_2d_kvhs_t13, fake_probe and along_ring alike
\* the velocity of a cell of non-zero area is KVHS / QTIM plus the table's
\* Vdrift exactly when its ring is listed and S_START < KSS < S_END, and
\* KVHS / QTIM otherwise, so that the three routines agree on every cell
\* (stated for the .dat files that hold the drift table).
C10_VelocityAsClaimed ==
    dat_file.has_table =>
    /\ T13VelocitiesAsClaimed
    /\ ProbeVelocitiesAsClaimed
    /\ RingVelocitiesAsClaimed

\* the values the figure holds for cell c, if it shows the cell
ShownValues(c) ==
    {fig.data[j] : j \in {i \in 1 .. Len(fig.cells) : fig.cells[i] = Rank(c)}}

\* C7 as claimed: when plot_contour_polygon is called with no_core=True and
\* no own_data, the data handed to the renderer carries no non-zero value on
\* any core-ring cell (ir < IRSEP - 1), whatever the dataname (stated for the
\* linear normalisation, which hands the data on as read).
C7_NoCoreDataInPlot ==
    (/\ Called("plot_contour_polygon")
     /\ call.args.no_core
     /\ call.args.normtype = "linear"
     /\ fig.kind = "contour") =>
        \A c \in NonZeroCells :
            c[1] < nc.IRSEP - 1 => ShownValues(c) \subseteq {ToF(0)}

\* the .dat file says T13 was off, or says it was on and lacks the table
T13OffOrNoTable ==
    /\ dat_file.loaded
    /\ dat_file.has_opt
    /\ dat_file.pol_opt = 0 \/ ~dat_file.has_table

\* C11 as claimed: when POL DRIFT OPT is 0 or the drift table is missing,
\* plot_contour_polygon with dataname 'KVHSimp' reports the error and
\* finishes without raising.
C11_KVHSimpPlotIsNonFatal ==
    (/\ Called("plot_contour_polygon")
     /\ call.args.dataname = "KVHSimp"
     /\ T13OffOrNoTable) =>
        /\ \E i \in 1 .. Len(out) : out[i] \in {T13OffError, WasT13OnError}
        /\ ret.kind # "raise"

\* what calculate_forces returns for a force with the other arguments of the
\* call, and the value at cell k of what was returned (an array or a number)
Tabulated(r) == IF r.kind = "array" THEN [r EXCEPT !.val = @ @@ <<>>] ELSE r
ForceOf(force) ==
    Tabulated(calculate_forces(force, call.args.vz_mult, call.args.charge,
                               call.args.no_core, call.args.imp_amu).ret)
ForceAt(r, k) == IF r.kind = "array" THEN r.val[k] ELSE ToF(r.val)
IsForce(r) == r.kind \in {"array", "int"}

\* the five forces of the net force, in the order of the sum
FnetParts == <<ForceOf("FF"), ForceOf("FPG"), ForceOf("FeG"), ForceOf("FiG"), ForceOf("FE")>>

\* C12: calculate_forces with force 'Fnet' returns, cell by cell, the sum of
\* what it returns for 'FF', 'FPG', 'FeG', 'FiG' and 'FE' with the same charge,
\* vz_mult, no_core and imp_amu: it returns an array exactly when the five
\* calls return forces, that array is their sum, and the spelling of the name
\* ('Fnet', 'fnet') makes no difference.
C12_FnetIsSumOfForces ==
    (Called("calculate_forces") /\ lower(call.args.force) = "fnet") =>
        \A parts \in {FnetParts} :
            /\ ret.kind = "array" <=> \A i \in 1 .. 5 : IsForce(parts[i])
            /\ ret.kind = "array" =>
                 \A k \in DOMAIN ret.val :
                     ret.val[k] = FAdd(FAdd(FAdd(FAdd(ForceAt(parts[1], k),
                                                      ForceAt(parts[2], k)),
                                                 ForceAt(parts[3], k)),
                                            ForceAt(parts[4], k)),
                                       ForceAt(parts[5], k))
            /\ ret = ForceOf("Fnet")
            /\ ret = ForceOf("fnet")

\* a net force has been returned with a cell where the friction force and the
\* electric field force both count
C12_Witness ==
    /\ Called("calculate_forces")
    /\ call.args.force = "fnet"
    /\ ret.kind = "array"
    /\ \E ff \in {ForceOf("FF")}, fe \in {ForceOf("FE")} :
         \E k \in DOMAIN ret.val :
             /\ IsFinite(ret.val[k])
             /\ ForceAt(ff, k) # ToF(0)
             /\ ForceAt(fe, k) # ToF(0)
             /\ ret.val[k] # ForceAt(ff, k)

\* the forces whose formula uses the charge of the ion
NeedsCharge == {"ff", "feg", "fig", "fe", "fnet"}

\* C13: with charge = None calculate_forces prints an error and returns None,
\* without raising, for every force whose formula needs the charge ('FF',
\* 'FeG', 'FiG', 'FE', 'Fnet').
C13_MissingChargeIsReported ==
    (/\ Called("calculate_forces")
     /\ call.args.charge.kind = "None"
     /\ lower(call.args.force) \in NeedsCharge) =>
        /\ \E i \in 1 .. Len(out) : out[i] = ChargeNeeded
        /\ ret = Returns("None", 0)

\* T13 is neither found on nor found off: no .dat file, no POL DRIFT OPT in
\* it, or an option that is neither 0 nor 1
T13Undetermined == cf_t13.t13 = "unbound"

\* the friction force (or the net force) computed with the plain KVHS / QTIM
\* velocity of the branch taken when T13 is off
PlainVelocityForce ==
    LET a == call.args
        ti == read_data_2d("KTIBS", None_, Num(ToF(1)), FALSE, a.no_core).val
        ne == read_data_2d("KNBS", None_, Num(ToF(1)), FALSE, a.no_core).val
        fact == FDiv(FMul(FMul(qtim, qtim), qe), FMul(a.imp_amu, amu_kg))
    IN  cf_after_ff(lower(a.force),
                    cf_ff(ti, ne, "False", a.vz_mult, a.charge, a.no_core),
                    <<>>, a.charge, FDiv(qe, fact), a.no_core).ret

\* C14: when calculate_forces cannot determine whether T13 was on, 'FF' and
\* 'Fnet' with a valid charge still return a force array, computed with the
\* plain KVHS / QTIM background velocity.
C14_UnknownT13IsOnlyAWarning ==
    (/\ Called("calculate_forces")
     /\ lower(call.args.force) \in {"ff", "fnet"}
     /\ call.args.charge.kind # "None"
     /\ T13Undetermined) =>
        /\ ret.kind = "array"
        /\ ret = PlainVelocityForce

\* show_cp names one of the collector probes 1, 2, 3
NamesProbe(show_cp) == \E n \in 1 .. 3 : cp_in(n, show_cp.items)

\* C15: when show_cp names a collector probe and ptip is not given,
\* plot_contour_polygon prints "Error: Location of tip of probe not given."
\* and finishes the figure without raising.
C15_MissingTipIsReported ==
    (/\ Called("plot_contour_polygon")
     /\ NamesProbe(call.args.show_cp)
     /\ call.args.ptip = NotList(NoNumber)) =>
        /\ \E i \in 1 .. Len(out) : out[i] = TipNotGiven
        /\ ret.kind # "raise"
        /\ fig # NoFig

\* the cells of the grid whose centre is closest to (r, z)
ClosestCells(r, z) ==
    {c \in GridCells :
        \A d \in GridCells : ~FLt(dist2(r, z, d[1], d[2]), dist2(r, z, c[1], c[2]))}

\* C16: find_ring_knot(r, z) returns the cell of the grid (ring < NRS and
\* knot < NKS[ring]) whose centre is closest to (r, z), the first one in
\* ring-major order on a tie.
C16_ClosestRealCell ==
    Called("find_ring_knot") =>
        /\ ret.val \in GridCells
        /\ ret.val \in ClosestCells(call.args.r, call.args.z)
        /\ \A c \in ClosestCells(call.args.r, call.args.z) : ~Before(c, ret.val)

\* the i-th of the evenly spaced locations of the probe of the last call
ProbeLocation(i) ==
    <<linspace(call.args.r_start, call.args.r_end, call.args.num_locs, i),
      linspace(call.args.z_start, call.args.z_end, call.args.num_locs, i)>>

\* the requested quantity at cell c
ProbeQuantity(c) ==
    CASE call.args.data = "Te" -> nc.KTEBS[c[1]][c[2]]
      [] call.args.data = "ne" -> nc.KNBS[c[1]][c[2]]
      [] call.args.data = "Mach" ->
             FDiv(fp_kvhs_adj.kvhs_adj[c[1]][c[2]], fp_cs(c[1], c[2]))
      [] call.args.data = "Velocity" -> fp_kvhs_adj.kvhs_adj[c[1]][c[2]]

\* C17: fake_probe returns num_locs rows; row i holds the i-th evenly spaced
\* location, the requested quantity at the cell find_ring_knot gives for it
\* and the Psin (PSIFL) of that cell, for each of 'Te', 'ne', 'Mach' and
\* 'Velocity'.
C17_ProbeTableIsFilled ==
    Called("fake_probe") =>
        /\ DOMAIN ret.val = 0 .. call.args.num_locs - 1
        /\ \A i \in DOMAIN ret.val :
             \A c \in {find_ring_knot(ProbeLocation(i)[1], ProbeLocation(i)[2])} :
                 /\ ret.val[i].RZ = ProbeLocation(i)
                 /\ ret.val[i].val = ProbeQuantity(c)
                 /\ ret.val[i].Psin = nc.PSIFL[c[1]][c[2]]

\* the cached state of the object
ObjectState == <<nc, dat_file, mesh, num_cells>>

\* a step in which one of the query methods is called
QueryStep == pc' \in {"returned", "repeated"} /\ call'.op \in QueryOps

\* C18: read_data_2d, read_data_2d_kvhs_t13, get_sep, calculate_forces,
\* find_ring_knot, fake_probe and along_ring leave mesh, num_cells, the
\* loaded arrays and dat_file unchanged, and a call made again with the same
\* arguments returns (prints, draws) the same as before.  The object being
\* the same after any sequence of these calls, so is the result of the call.
C18_QueriesAreRepeatable ==
    [][/\ QueryStep => UNCHANGED ObjectState
       /\ pc' = "repeated" => call' = call /\ ret' = ret /\ out' = out /\ fig' = fig]_vars

\* a velocity probe through a drift region has been repeated
C18_Witness ==
    /\ pc = "repeated"
    /\ call.op = "fake_probe"
    /\ call.args.data = "Velocity"
    /\ dat_file.has_table /\ dat_file.pol_opt = 1
    /\ \E i \in DOMAIN ret.val :
         ret.val[i].val # FDiv(nc.KVHS[find_ring_knot(ret.val[i].RZ[1], ret.val[i].RZ[2])[1]]
                                      [find_ring_knot(ret.val[i].RZ[1], ret.val[i].RZ[2])[2]],
                               qtim)
====
